---- MODULE Spec2Model ----
(***************************************************************************)
(* Model of ESP8266_DHT22_Temp_Humi_Graphs_v4.ino: the rolling sample      *)
(* arrays temp_readings / humi_readings filled by loop(), the running      *)
(* minima and maxima, and the scaling arithmetic of DrawGraph.             *)
(*                                                                         *)
(* A C float is a record [nan, v]: nan says the value is NaN, otherwise    *)
(* the value is the rational v / Q (fixed point, Q steps per unit).  C int *)
(* arithmetic is integer arithmetic with division truncating toward zero.  *)
(* Converting a NaN float to int is undefined behaviour: the result is a   *)
(* value `ub' chosen nondeterministically from UBInts.                     *)
(***************************************************************************)
EXTENDS Integers, Sequences, FiniteSets, TLC

VARIABLES
    temperature, humidity,              \* line 44
    min_temp, max_temp,                 \* line 45
    min_humi, max_humi,                 \* line 45
    temp_readings, humi_readings,       \* lines 49-50
    reading,                            \* line 51
    pc,                                 \* "setup" before setup() ran, then "loop"
    serial,                             \* what the last tick printed on Serial
    drawnT, drawnH,                     \* the arrays handed to DrawGraph at lines 188-189 by the last tick
    conv,                               \* what the undefined float -> int conversion gave in the last tick
    drew,                               \* the last run of loop() called DrawGraph
    slot,                               \* observer: index written at lines 160-161 by the last tick
    ticks,                              \* observer: completed loop() runs, saturating
    histT, histH,                       \* observer: the last max_readings values stored
    seenT, seenH,                       \* observer: every non-NaN value ever stored
    req, res                            \* a free-standing DrawGraph call and its result

vars == << temperature, humidity, min_temp, max_temp, min_humi, max_humi,
           temp_readings, humi_readings, reading, pc, serial, drawnT, drawnH, conv, drew,
           slot, ticks, histT, histH, seenT, seenH, req, res >>

progVars == << temperature, humidity, min_temp, max_temp, min_humi, max_humi,
               temp_readings, humi_readings, reading, pc, serial, drawnT, drawnH, conv, drew,
               slot, ticks, histT, histH, seenT, seenH >>

-----------------------------------------------------------------------------
(* Bounds of the model *)

MaxReadings == 3      \* model value of max_readings (200 in the sketch)
Q == 2                \* fixed-point steps per unit of a float

(* Program constants *)

max_readings == MaxReadings
temp_error_offset == 1
humi_error_offset == 1
auto_scale_major_tick == 5
yticks == 5
MinSentinel == 100
MaxSentinel == 0 - 100

-----------------------------------------------------------------------------
(* Floats and ints *)

F(n) == [nan |-> FALSE, v |-> n]
NaN == [nan |-> TRUE, v |-> 0]
Whole(n) == F(n * Q)               \* the float n.0
Frac(n) == F(n * Q + 1)            \* the float n + 1/Q

isnan(f) == f.nan

FAddInt(f, k) == IF f.nan THEN NaN ELSE F(f.v + k * Q)
FGt(a, b) == ~a.nan /\ ~b.nan /\ a.v > b.v
FLt(a, b) == ~a.nan /\ ~b.nan /\ a.v < b.v
FLtInt(a, k) == ~a.nan /\ a.v < k * Q
FGtInt(a, k) == ~a.nan /\ a.v > k * Q
IntLeF(k, a) == ~a.nan /\ k * Q <= a.v

Abs(n) == IF n < 0 THEN 0 - n ELSE n

\* C integer division: truncates toward zero (b # 0)
CDiv(a, b) ==
    IF a >= 0 /\ b > 0 THEN a \div b
    ELSE IF (a >= 0) = (b > 0) THEN Abs(a) \div Abs(b)
    ELSE 0 - (Abs(a) \div Abs(b))

\* float -> int conversion: truncation toward zero; of NaN, undefined
FloatToInt(f, ub) == IF f.nan THEN ub ELSE CDiv(f.v, Q)

\* outcomes of the undefined conversion that the model lets the build produce
UBInts == { 0 - 2147483647, 0, 2147483647 }

-----------------------------------------------------------------------------
(* DrawGraph, lines 85-126 *)

\* faulty variant: the sample is scaled without being clamped
constrain_none(amt, low, high) == amt

\* Arduino's constrain(amt, low, high) macro, with int low and high
constrain(amt, low, high) ==
    IF FLtInt(amt, low) THEN Whole(low)
    ELSE IF FGtInt(amt, high) THEN Whole(high)
    ELSE amt

\* line 90: the scan for the largest sample, from slot i on, m the int found so far
RECURSIVE ScanMax(_, _, _, _)
ScanMax(DataArray, i, m, ub) ==
    IF i > max_readings THEN m
    ELSE ScanMax(DataArray, i + 1,
                 IF IntLeF(m, DataArray[i]) THEN FloatToInt(DataArray[i], ub) ELSE m,
                 ub)

\* faulty variant: the +2 of line 91 is left out
AutoScaleCandidate_noRound(maxYscale) ==
    CDiv(maxYscale + auto_scale_major_tick, auto_scale_major_tick)
        * auto_scale_major_tick

\* line 91: the autoscale candidate
AutoScaleCandidate(maxYscale) ==
    CDiv(maxYscale + auto_scale_major_tick + 2, auto_scale_major_tick)
        * auto_scale_major_tick

\* faulty variant: line 92 assigns the candidate whatever the hint is
EffectiveY1Max_always(Y1Max, DataArray, auto_scale, ub) ==
    IF auto_scale
    THEN AutoScaleCandidate(ScanMax(DataArray, 1, 0, ub))
    ELSE Y1Max

\* lines 88-93: the Y1Max used from line 94 on
EffectiveY1Max(Y1Max, DataArray, auto_scale, ub) ==
    IF auto_scale
    THEN LET maxYscale == AutoScaleCandidate(ScanMax(DataArray, 1, 0, ub))
         IN  IF maxYscale < Y1Max THEN maxYscale ELSE Y1Max
    ELSE Y1Max

\* line 108: y2 of one sample; a NaN or a division by zero makes the float
\* non-finite and its conversion to int undefined
SeriesY2(y_pos, height, Y1Max, sample, ub) ==
    LET c == constrain(sample, 0, Y1Max)
    IN  IF c.nan \/ Y1Max = 0 THEN ub
        ELSE CDiv((y_pos + height + 1) * (Q * Y1Max) - c.v * height, Q * Y1Max)

\* lines 104-115: the end points computed for slot gx
SeriesPoint(x_pos, y_pos, width, height, Y1Max, DataArray, gx, ub) ==
    [ x1 |-> x_pos + CDiv(gx * width, max_readings),
      y1 |-> y_pos + height,
      x2 |-> x_pos + CDiv(gx * width, max_readings),
      y2 |-> SeriesY2(y_pos, height, Y1Max, DataArray[gx], ub) ]

\* line 124: the label printed at tick `spacing'
ScaleLabel(Y1Max, spacing) == Y1Max - CDiv(Y1Max, yticks) * spacing

\* what one call of DrawGraph computes and hands to the display
DrawGraph(x_pos, y_pos, width, height, Y1Max, DataArray, auto_scale, barchart_mode, ub) ==
    LET eff == EffectiveY1Max(Y1Max, DataArray, auto_scale, ub)
    IN  [ called        |-> TRUE,
          DataArray     |-> DataArray,
          hint          |-> Y1Max,
          auto_scale    |-> auto_scale,
          barchart_mode |-> barchart_mode,
          y_pos         |-> y_pos,
          height        |-> height,
          Y1Max         |-> eff,
          frame         |-> [x |-> x_pos, y |-> y_pos, w |-> width + 2, h |-> height + 3],
          series        |-> [gx \in 1..max_readings |->
                               SeriesPoint(x_pos, y_pos, width, height, eff, DataArray, gx, ub)],
          gridY         |-> [spacing \in 0..(yticks - 1) |->
                               y_pos + CDiv(height * spacing, yticks)],
          labels        |-> [spacing \in 0..yticks |-> ScaleLabel(eff, spacing)] ]

NoGraph == [called |-> FALSE]

\* the y coordinates DrawGraph draws for slot gx (lines 109-114)
DrawnYs(g, gx) ==
    IF g.barchart_mode
    THEN {g.series[gx].y1, g.series[gx].y2}
    ELSE {g.series[gx].y2, g.series[gx].y2 - 1}

-----------------------------------------------------------------------------
(* setup() and loop() *)

ZeroArray == [i \in 0..max_readings |-> Whole(0)]

\* lines 206-207
ReadSensor(raw, offset) == FAddInt(raw, offset)

\* lines 209-215: what get_temperature_and_humidity prints
SerialLine(t, h) == IF isnan(h) \/ isnan(t) THEN "failed" ELSE "values"

\* lines 160-161
StoreReading(arr, idx, v) == [arr EXCEPT ![idx] = v]

\* lines 162, 164
UpdateMax(cur, v) == IF FGt(v, cur) THEN v ELSE cur
\* lines 163, 165
UpdateMin(cur, v) == IF FLt(v, cur) THEN v ELSE cur

\* faulty variant: the index is not capped at max_readings
NextReading_uncapped(r) == r + 1

\* lines 191-193
NextReading(r) == IF r + 1 > max_readings THEN max_readings ELSE r + 1

\* faulty variant: the shift loop stops one slot early
ShiftLeft_short(arr, v) ==
    [i \in 0..max_readings |->
        IF i >= 1 /\ i < max_readings - 1 THEN arr[i + 1]
        ELSE IF i = max_readings THEN v
        ELSE arr[i]]

\* lines 194-199, taken when the incremented index exceeds max_readings
ShiftLeft(arr, v) ==
    [i \in 0..max_readings |->
        IF i >= 1 /\ i < max_readings THEN arr[i + 1]
        ELSE IF i = max_readings THEN v
        ELSE arr[i]]

\* faulty variant: a full array is never shifted
Advance_noShift(arr, r, v) == arr

\* lines 191-200 on one array
Advance(arr, r, v) == IF r + 1 > max_readings THEN ShiftLeft(arr, v) ELSE arr

\* observers
LastWindow(h, v) ==
    LET a == Append(h, v)
    IN  IF Len(a) > max_readings THEN Tail(a) ELSE a
Seen(s, v) == IF v.nan THEN s ELSE s \cup {v.v}

\* what the DHT22 library can return (before the error offsets)
SensorTemp == { NaN, Whole(19), Frac(60) }
SensorHumi == { NaN, Frac(40), Whole(100) }

\* the undefined conversion happens only when a drawn array holds a NaN
HasNaN(arr) == \E i \in 1..max_readings : arr[i].nan
Conversions(tr, hr) == IF HasNaN(tr) \/ HasNaN(hr) THEN UBInts ELSE {0}

IdleReq == [called |-> FALSE]

InitProgram ==
    /\ temperature = Whole(0)
    /\ humidity = Whole(0)
    /\ min_temp = Whole(MinSentinel)
    /\ max_temp = Whole(MaxSentinel)
    /\ min_humi = Whole(MinSentinel)
    /\ max_humi = Whole(MaxSentinel)
    /\ temp_readings = ZeroArray
    /\ humi_readings = ZeroArray
    /\ reading = 1
    /\ pc = "setup"
    /\ serial = "none"
    /\ drawnT = ZeroArray
    /\ drawnH = ZeroArray
    /\ conv = 0
    /\ drew = FALSE
    /\ slot = 0
    /\ ticks = 0
    /\ histT = << >>
    /\ histH = << >>
    /\ seenT = {}
    /\ seenH = {}

Init ==
    /\ InitProgram
    /\ req = IdleReq
    /\ res = NoGraph

\* lines 129-147
Setup ==
    /\ pc = "setup"
    /\ temp_readings' = ZeroArray
    /\ humi_readings' = ZeroArray
    /\ pc' = "loop"
    /\ UNCHANGED << temperature, humidity, min_temp, max_temp, min_humi, max_humi,
                    reading, serial, drawnT, drawnH, conv, drew, slot, ticks, histT, histH,
                    seenT, seenH, req, res >>

\* lines 149-203: one run of loop()
Loop ==
    /\ pc = "loop"
    /\ \E rawT \in SensorTemp, rawH \in SensorHumi :
         LET t  == ReadSensor(rawT, temp_error_offset)
             h  == ReadSensor(rawH, humi_error_offset)
             tr == StoreReading(temp_readings, reading, t)
             hr == StoreReading(humi_readings, reading, h)
         IN  \E ub \in Conversions(tr, hr) :
             /\ temperature' = t
             /\ humidity' = h
             /\ serial' = SerialLine(t, h)
             /\ max_temp' = UpdateMax(max_temp, t)
             /\ min_temp' = UpdateMin(min_temp, t)
             /\ max_humi' = UpdateMax(max_humi, h)
             /\ min_humi' = UpdateMin(min_humi, h)
             /\ drawnT' = tr
             /\ drawnH' = hr
             /\ conv' = ub
             /\ drew' = TRUE
             /\ reading' = NextReading(reading)
             /\ temp_readings' = Advance(tr, reading, t)
             /\ humi_readings' = Advance(hr, reading, h)
             /\ slot' = reading
             /\ ticks' = IF ticks > max_readings THEN ticks ELSE ticks + 1
             /\ histT' = LastWindow(histT, t)
             /\ histH' = LastWindow(histH, h)
             /\ seenT' = Seen(seenT, t)
             /\ seenH' = Seen(seenH, h)
    /\ UNCHANGED << pc, req, res >>

\* lines 188-189: the two DrawGraph calls of the last tick, with the constant
\* arguments of the sketch
graphT ==
    IF ~drew THEN NoGraph
    ELSE DrawGraph(105, 20, 200, 80, 50, drawnT, TRUE, FALSE, conv)
graphH ==
    IF ~drew THEN NoGraph
    ELSE DrawGraph(105, 150, 200, 80, 100, drawnH, FALSE, TRUE, conv)

Next == Setup \/ Loop

Spec == Init /\ [][Next]_vars

-----------------------------------------------------------------------------
(* DrawGraph on its own: a call with arguments drawn from bounded sets *)

GraphSamples == { NaN, Frac(0 - 3), Whole(0), Frac(20), Whole(43), Whole(60) }
GraphHints == { 0 - 10, 0, 30, 50, 100 }
GraphYPos == { 20, 150 }

Requests ==
    [ called        : {TRUE},
      x_pos         : {105},
      y_pos         : GraphYPos,
      width         : {200},
      height        : {80},
      Y1Max         : GraphHints,
      DataArray     : { [i \in 0..max_readings |-> IF i = 0 THEN Whole(0) ELSE a[i]] :
                          a \in [1..max_readings -> GraphSamples] },
      auto_scale    : BOOLEAN,
      barchart_mode : BOOLEAN,
      ub            : UBInts ]

InitGraph ==
    /\ InitProgram
    /\ req \in Requests
    /\ res = NoGraph

Render ==
    /\ req.called
    /\ ~res.called
    /\ res' = DrawGraph(req.x_pos, req.y_pos, req.width, req.height, req.Y1Max,
                        req.DataArray, req.auto_scale, req.barchart_mode, req.ub)
    /\ UNCHANGED << req, progVars >>

NextGraph == Render

SpecGraph == InitGraph /\ [][NextGraph]_vars

-----------------------------------------------------------------------------
(* Properties *)

SetMin(S) == CHOOSE x \in S : \A y \in S : x <= y
SetMax(S) == CHOOSE x \in S : \A y \in S : x >= y
Slots == 1..max_readings
NoNaNIn(a) == \A i \in DOMAIN a : ~a[i].nan

\* C1: a tick whose sensor read failed leaves the arrays, the write index and
\* the running minima and maxima as they were, and calls DrawGraph not at all.
C1_FailedReadSkipsTick ==
    [][ serial' = "failed" =>
          /\ temp_readings' = temp_readings
          /\ humi_readings' = humi_readings
          /\ reading' = reading
          /\ << min_temp, max_temp, min_humi, max_humi >>' =
                << min_temp, max_temp, min_humi, max_humi >>
          /\ ~drew' ]_vars

\* C2: from tick max_readings + 1 on, slots 1..max_readings of the array handed
\* to DrawGraph are the max_readings values stored last, oldest first.
C2_DrawnIsLastWindow ==
    ticks > max_readings =>
        /\ Len(histT) = max_readings
        /\ Len(histH) = max_readings
        /\ \A i \in Slots : drawnT[i] = histT[i] /\ drawnH[i] = histH[i]

C2_Witness ==
    /\ ticks > max_readings
    /\ NoNaNIn(histT) /\ NoNaNIn(histH)
    /\ histT[1] # histT[max_readings]
    /\ histH[1] # histH[max_readings]
    /\ \A i \in Slots : drawnT[i] = histT[i] /\ drawnH[i] = histH[i]

\* C3: once a non-NaN reading was stored, min_temp / max_temp (min_humi /
\* max_humi) are the least / greatest of all values ever stored in that series.
C3_ExtremaAreTrue ==
    /\ seenT # {} => min_temp.v = SetMin(seenT) /\ max_temp.v = SetMax(seenT)
    /\ seenH # {} => min_humi.v = SetMin(seenH) /\ max_humi.v = SetMax(seenH)

\* C8: the number of held samples (the slot the last tick wrote) is within
\* 0..max_readings, every written slot and the next write index are within
\* 1..max_readings, and from the tick that filled the array on it stays full.
count == slot
C8_IndexInRangeAndStaysFull ==
    /\ count \in 0..max_readings
    /\ reading \in 1..max_readings
    /\ ticks > 0 => slot \in 1..max_readings
    /\ ticks < max_readings => count = ticks /\ reading = ticks + 1
    /\ ticks >= max_readings => count = max_readings /\ reading = max_readings
    /\ DOMAIN temp_readings = 0..max_readings
    /\ DOMAIN humi_readings = 0..max_readings

C8_Witness == ticks > max_readings /\ count = max_readings /\ reading = max_readings

\* C9: with autoscale on, the Y-axis maximum used for plotting is at least the
\* largest value of the data array.
C9_AutoscaleGrowsToData ==
    (graphT.called /\ graphT.auto_scale) =>
        \A gx \in Slots :
            ~graphT.DataArray[gx].nan => graphT.DataArray[gx].v <= graphT.Y1Max * Q

\* C10: at the end of every tick from the max_readings-th on, slots
\* max_readings - 1 and max_readings both hold the newest reading and slots
\* 1..max_readings - 1 hold the max_readings - 1 newest readings, oldest first.
C10_RestStateAfterShift ==
    ticks >= max_readings =>
        /\ temp_readings[max_readings] = temperature
        /\ humi_readings[max_readings] = humidity
        /\ \A i \in 1..(max_readings - 1) :
              /\ temp_readings[i] = histT[i + 1]
              /\ humi_readings[i] = histH[i + 1]
        /\ histT[max_readings] = temperature
        /\ histH[max_readings] = humidity

C10_Witness ==
    /\ ticks > max_readings
    /\ NoNaNIn(histT)
    /\ histT[1] # histT[2]
    /\ temp_readings[max_readings - 1] = temperature
    /\ temp_readings[max_readings] = temperature
    /\ temp_readings[1] = histT[2]

-----------------------------------------------------------------------------
(* Properties of DrawGraph *)

\* the non-NaN sample values of slots 1..max_readings, in steps of 1/Q
Numbers(a) == { a[i].v : i \in { j \in Slots : ~a[j].nan } }
\* the least integer >= n / d and the greatest integer <= n / d, for d > 0
CeilDiv(n, d) == 0 - ((0 - n) \div d)
FloorDiv(n, d) == n \div d

C5_CandidateIsCeiling ==
    (res.called /\ res.auto_scale /\ NoNaNIn(res.DataArray)) =>
        LET mx   == SetMax(Numbers(res.DataArray))
            cand == CeilDiv(mx + (auto_scale_major_tick + 2) * Q, auto_scale_major_tick * Q)
                        * auto_scale_major_tick
        IN  res.Y1Max = IF cand < res.hint THEN cand ELSE res.hint

\* C5 amended: the candidate is ((m + tick + 2) / tick) * tick in C integer
\* arithmetic, m being the largest non-NaN sample truncated to an int, or 0 when
\* no sample is >= 0; it replaces the hint exactly when it is smaller.
C5_CandidateIsTruncated ==
    (res.called /\ res.auto_scale) =>
        LET nonneg == { n \in Numbers(res.DataArray) : n >= 0 }
            m      == IF nonneg = {} THEN 0 ELSE FloorDiv(SetMax(nonneg), Q)
            cand   == FloorDiv(m + auto_scale_major_tick + 2, auto_scale_major_tick)
                          * auto_scale_major_tick
        IN  res.Y1Max = IF cand < res.hint THEN cand ELSE res.hint

C5_Witness ==
    /\ res.called /\ res.auto_scale /\ res.hint = 50
    /\ NoNaNIn(res.DataArray)
    /\ SetMax(Numbers(res.DataArray)) = 20 * Q + 1
    /\ res.Y1Max = 25

\* C6 as stated: with an upper bound > 0, every y coordinate drawn for a sample
\* that is a number lies within y_pos .. y_pos + height.
C6_SeriesWithinPlotHeight ==
    (res.called /\ res.Y1Max > 0) =>
        \A gx \in Slots :
            ~res.DataArray[gx].nan =>
                \A y \in DrawnYs(res, gx) : res.y_pos <= y /\ y <= res.y_pos + res.height

\* C6 amended: with an upper bound > 0, every y coordinate drawn for a sample
\* that is a number lies within y_pos .. y_pos + height + 1, inside the frame.
C6_SeriesWithinFrame ==
    (res.called /\ res.Y1Max > 0) =>
        \A gx \in Slots :
            ~res.DataArray[gx].nan =>
                \A y \in DrawnYs(res, gx) :
                    /\ res.y_pos <= y /\ y <= res.y_pos + res.height + 1
                    /\ res.frame.y <= y /\ y < res.frame.y + res.frame.h

C6_Witness ==
    /\ res.called /\ res.Y1Max > 0
    /\ \E gx \in Slots :
          /\ FLtInt(res.DataArray[gx], 0)
          /\ res.series[gx].y2 = res.y_pos + res.height + 1
    /\ \E gx \in Slots :
          /\ FGtInt(res.DataArray[gx], res.Y1Max)
          /\ res.series[gx].y2 = res.y_pos + 1

====
